---- MODULE Spec2Model ----
(***************************************************************************)
(* PedMedMonitor (src/script.js): creatinine-clearance estimation, the     *)
(* one-compartment simulation with its dose evaluation, and the form's     *)
(* submit handler.                                                         *)
(*                                                                         *)
(* A JavaScript Number is modelled as a decimal floating-point value       *)
(* <<m, e>> = m * 10^e with an 8-digit mantissa, every operation chopped   *)
(* to 8 digits (an IEEE double carries about 16).  x / 0 is Infinity.      *)
(* Texts are kept in ASCII: "estavel" stands for "est\'avel".               *)
(***************************************************************************)
EXTENDS Integers, Sequences, FiniteSets, TLC

\* ------------------------------------------------------------ Number
Digits == 8

RECURSIVE Pow10(_)
Pow10(n) == IF n = 0 THEN 1 ELSE 10 * Pow10(n - 1)

\* A mantissa m has MantMin <= |m| < MantMax; products are formed by halves.
MantMax == Pow10(Digits)
MantMin == Pow10(Digits - 1)
Limb == Pow10(Digits \div 2)

Abs(n) == IF n < 0 THEN -n ELSE n
TruncDiv(a, b) == IF a >= 0 THEN a \div b ELSE -((-a) \div b)

\* The values a Number takes besides the finite ones, and the two non-numbers
\* an argument can be.
Infinity == <<1, 0, "Infinity">>
NaN == <<0, 0, "NaN">>
Null == <<0, 0, "null">>
Undefined == <<0, 0, "undefined">>

IsFinite(x) == Len(x) = 2

RECURSIVE Normalize(_, _)
Normalize(m, e) ==
    IF m = 0 THEN <<0, 0>>
    ELSE IF Abs(m) >= MantMax THEN Normalize(TruncDiv(m, 10), e + 1)
    ELSE IF Abs(m) < MantMin THEN Normalize(m * 10, e - 1)
    ELSE <<m, e>>

\* The literal n, and the literal n * 10^-k (Dec(83, 5) is 0.00083).
FromInt(n) == Normalize(n, 0)
Dec(n, k) == Normalize(n, -k)

Zero == FromInt(0)
One == FromInt(1)

Neg(x) == <<-x[1], x[2]>>

\* x + y with one guard digit: exact when the exponents differ by at most 1.
Add(x, y) ==
    IF x[1] = 0 THEN y
    ELSE IF y[1] = 0 THEN x
    ELSE LET big == IF x[2] >= y[2] THEN x ELSE y
             small == IF x[2] >= y[2] THEN y ELSE x
             d == big[2] - small[2]
         IN  IF d > Digits + 1 THEN big
             ELSE IF d = 0 THEN Normalize(big[1] + small[1], big[2])
             ELSE Normalize(big[1] * 10 + TruncDiv(small[1], Pow10(d - 1)), big[2] - 1)

Sub(x, y) == Add(x, Neg(y))

\* x * y: the 16-digit product of the mantissas by limbs, chopped to 8 digits.
Mul(x, y) ==
    IF x[1] = 0 \/ y[1] = 0 THEN Zero
    ELSE LET a == Abs(x[1])
             b == Abs(y[1])
             s == IF (x[1] < 0) = (y[1] < 0) THEN 1 ELSE -1
             a1 == a \div Limb
             a0 == a % Limb
             b1 == b \div Limb
             b0 == b % Limb
             mid == a1 * b0 + a0 * b1
             low == (mid % Limb) * Limb + a0 * b0
             hi == a1 * b1 + mid \div Limb + low \div MantMax
             lo == low % MantMax
         IN  IF hi >= MantMin THEN <<s * hi, x[2] + y[2] + Digits>>
             ELSE <<s * (hi * 10 + lo \div MantMin), x[2] + y[2] + Digits - 1>>

RECURSIVE LongDiv(_, _, _, _)
LongDiv(r, b, q, n) ==
    IF n = 0 THEN q
    ELSE LongDiv((r * 10) % b, b, q * 10 + (r * 10) \div b, n - 1)

\* x / y by long division, chopped to 8 digits; a finite non-zero x over 0 is
\* Infinity and 0 / 0 is NaN.
Div(x, y) ==
    IF y[1] = 0 THEN (IF x[1] = 0 THEN NaN ELSE Infinity)
    ELSE IF x[1] = 0 THEN Zero
    ELSE LET a == Abs(x[1])
             b == Abs(y[1])
             s == IF (x[1] < 0) = (y[1] < 0) THEN 1 ELSE -1
         IN  Normalize(s * LongDiv(a % b, b, a \div b, Digits), x[2] - y[2] - Digits)

\* x < y and x <= y as JavaScript compares Numbers (false when either is NaN).
Less(x, y) ==
    IF x = NaN \/ y = NaN THEN FALSE
    ELSE IF x = Infinity THEN FALSE
    ELSE IF y = Infinity THEN TRUE
    ELSE Sub(x, y)[1] < 0

Leq(x, y) ==
    IF x = NaN \/ y = NaN THEN FALSE
    ELSE IF y = Infinity THEN TRUE
    ELSE IF x = Infinity THEN FALSE
    ELSE Sub(x, y)[1] <= 0

\* Math.floor, Math.ceil, Math.round as integers.
Floor(x) ==
    IF x[2] >= 0 THEN x[1] * Pow10(x[2])
    ELSE IF -x[2] > Digits THEN (IF x[1] < 0 THEN -1 ELSE 0)
    ELSE x[1] \div Pow10(-x[2])

Ceil(x) == -Floor(Neg(x))
Round(x) == Floor(Add(x, Dec(5, 1)))

\* Number.prototype.toFixed(2): the decimal string, kept as its count of
\* hundredths.
ToFixed2(x) ==
    LET h == Floor(Add(Mul(<<Abs(x[1]), x[2]>>, FromInt(100)), Dec(5, 1)))
    IN  IF x[1] < 0 THEN -h ELSE h

\* Math.exp: exp(0) is exactly 1; otherwise the power series, summed until a
\* term no longer changes the sum, and exp(-x) = 1 / exp(x).
RECURSIVE ExpSeries(_, _, _, _)
ExpSeries(x, term, sum, n) ==
    LET t == Div(Mul(term, x), FromInt(n))
        s == Add(sum, t)
    IN  IF s = sum THEN sum ELSE ExpSeries(x, t, s, n + 1)

Exp(x) ==
    IF x[1] = 0 THEN One
    ELSE IF x[1] > 0 \/ Less(Neg(One), x) THEN ExpSeries(x, One, One, 1)
    ELSE Div(One, ExpSeries(Neg(x), One, One, 1))

Max(x, y) == IF Less(x, y) THEN y ELSE x

\* What a call ends in: a returned value or a thrown Error with its message.
Return(v) == [threw |-> FALSE, message |-> "", value |-> v]
Throw(msg) == [threw |-> TRUE, message |-> msg, value |-> Undefined]

\* ------------------------------------------------ calculateClearance
AgeUnits == {"days", "months", "years"}

ageInDaysOf(ageValue, ageUnit) ==
    IF ageUnit = "days" THEN ageValue
    ELSE IF ageUnit = "months" THEN Mul(ageValue, Dec(3042, 2))
    ELSE Mul(ageValue, Dec(36525, 2))

\* IsPediatric with the years test written <= 18: the slip C3's boundary at 18
\* years rules out.
IsPediatricThrough18(ageValue, ageUnit) ==
    \/ Leq(ageInDaysOf(ageValue, ageUnit), FromInt(28))
    \/ ageUnit = "months"
    \/ (ageUnit = "years" /\ Leq(ageValue, FromInt(18)))

IsPediatric(ageValue, ageUnit) ==
    \/ Leq(ageInDaysOf(ageValue, ageUnit), FromInt(28))
    \/ ageUnit = "months"
    \/ (ageUnit = "years" /\ Less(ageValue, FromInt(18)))

SchwartzK(ageValue, ageUnit) ==
    IF Leq(ageInDaysOf(ageValue, ageUnit), FromInt(7)) THEN Dec(33, 2)
    ELSE IF Leq(ageInDaysOf(ageValue, ageUnit), FromInt(28)) THEN Dec(45, 2)
    ELSE IF ageUnit = "months" THEN Dec(55, 2)
    ELSE Dec(413, 3)

Schwartz(ageValue, ageUnit, creatinine) ==
    LET k == SchwartzK(ageValue, ageUnit)
        height == Add(FromInt(50),
                      Mul(ageValue, IF ageUnit = "years" THEN FromInt(12)
                                    ELSE IF ageUnit = "months" THEN FromInt(1)
                                    ELSE Dec(1, 1)))
    IN  Div(Mul(k, height), creatinine)

CockcroftGault(weight, ageValue, ageUnit, creatinine) ==
    LET ageYears == IF ageUnit = "years" THEN ageValue
                    ELSE IF ageUnit = "months" THEN Div(ageValue, FromInt(12))
                    ELSE Div(ageValue, Dec(36525, 2))
    IN  Div(Mul(Sub(FromInt(140), ageYears), weight), Mul(FromInt(72), creatinine))

calculateClearance(weight, ageValue, ageUnit, creatinine) ==
    IF Leq(weight, Zero) \/ Leq(creatinine, Zero)
    THEN Throw("Peso e creatinina devem ser maiores que 0.")
    ELSE LET crCl == IF IsPediatric(ageValue, ageUnit)
                     THEN Schwartz(ageValue, ageUnit, creatinine)
                     ELSE CockcroftGault(weight, ageValue, ageUnit, creatinine)
         IN  Return(Max(Zero, crCl))

\* -------------------------------------------------------- simulatePK
Antibiotics ==
    {"vancomycin_intermittent", "vancomycin_continuous", "gentamicin", "amikacin",
     "tobramycin"}

\* Each range is <<low, high>>.
therapeuticRanges(antibiotic) ==
    CASE antibiotic = "vancomycin_intermittent" ->
            [peak |-> <<FromInt(25), FromInt(40)>>, trough |-> <<FromInt(10), FromInt(20)>>,
             auc |-> <<FromInt(400), FromInt(600)>>]
      [] antibiotic = "vancomycin_continuous" ->
            [steady |-> <<FromInt(20), FromInt(25)>>, auc |-> <<FromInt(400), FromInt(600)>>]
      [] antibiotic = "gentamicin" ->
            [peak |-> <<FromInt(5), FromInt(10)>>, trough |-> <<FromInt(0), FromInt(2)>>]
      [] antibiotic = "amikacin" ->
            [peak |-> <<FromInt(20), FromInt(30)>>, trough |-> <<FromInt(0), FromInt(5)>>]
      [] antibiotic = "tobramycin" ->
            [peak |-> <<FromInt(5), FromInt(10)>>, trough |-> <<FromInt(0), FromInt(2)>>]

\* crCl = (crCl / 1000) * 60 / weight
ClearancePerKg(crCl, weight) ==
    Div(Mul(Div(crCl, FromInt(1000)), FromInt(60)), weight)

\* Cmax = (dose / weight) / (Vd * (1 - Math.exp(-Ke * infusionTime)))
PeakOf(dose, weight, Vd, Ke, infusionTime) ==
    Div(Div(dose, weight), Mul(Vd, Sub(One, Exp(Mul(Neg(Ke), infusionTime)))))

\* Cmin = Cmax * Math.exp(-Ke * (interval - infusionTime))
TroughOf(Cmax, Ke, interval, infusionTime) ==
    Mul(Cmax, Exp(Mul(Neg(Ke), Sub(interval, infusionTime))))

\* auc = (dose / weight / hours) / (Ke * Vd) * 24
AucOf(dose, weight, hours, Ke, Vd) ==
    Mul(Div(Div(Div(dose, weight), hours), Mul(Ke, Vd)), FromInt(24))

\* The switch: the locals Vd, Ke, t1_2, infusionTime, Cmax, Cmin, auc.  t1_2 is
\* never assigned for vancomycin_continuous.
Kinetics(antibiotic, dose, interval, weight, crClPerKg) ==
    IF antibiotic = "vancomycin_intermittent" THEN
        LET Vd == Dec(7, 1)
            Ke == Add(Mul(crClPerKg, Dec(83, 5)), Dec(44, 4))
            infusionTime == FromInt(1)
            Cmax == PeakOf(dose, weight, Vd, Ke, infusionTime)
        IN  [Vd |-> Vd, Ke |-> Ke, t1_2 |-> Div(Dec(693, 3), Ke),
             infusionTime |-> infusionTime, Cmax |-> Cmax,
             Cmin |-> TroughOf(Cmax, Ke, interval, infusionTime),
             auc |-> AucOf(dose, weight, interval, Ke, Vd)]
    ELSE IF antibiotic = "vancomycin_continuous" THEN
        LET Vd == Dec(7, 1)
            Ke == Add(Mul(crClPerKg, Dec(83, 5)), Dec(44, 4))
            auc == AucOf(dose, weight, FromInt(24), Ke, Vd)
            Cmax == Div(auc, FromInt(24))
        IN  [Vd |-> Vd, Ke |-> Ke, t1_2 |-> Undefined,
             infusionTime |-> FromInt(24), Cmax |-> Cmax, Cmin |-> Cmax, auc |-> auc]
    ELSE
        LET Vd == Dec(25, 2)
            Ke == Add(Mul(crClPerKg, Dec(29, 4)), Dec(1, 2))
            infusionTime == Dec(5, 1)
            Cmax == PeakOf(dose, weight, Vd, Ke, infusionTime)
        IN  [Vd |-> Vd, Ke |-> Ke, t1_2 |-> Div(Dec(693, 3), Ke),
             infusionTime |-> infusionTime, Cmax |-> Cmax,
             Cmin |-> TroughOf(Cmax, Ke, interval, infusionTime),
             auc |-> AucOf(dose, weight, interval, Ke, Vd)]

\* timePoints = Array.from({ length: Math.ceil(interval * 2) }, (_, i) => i / 2)
TimeGrid(interval) ==
    [i \in 1..Ceil(Mul(interval, FromInt(2))) |-> Div(FromInt(i - 1), FromInt(2))]

\* One sample of the curve at time t.
Sample(t, dose, weight, k) ==
    IF Leq(t, k.infusionTime)
    THEN Div(Div(dose, weight), Mul(k.Vd, Sub(One, Exp(Mul(Neg(k.Ke), t)))))
    ELSE Mul(k.Cmax, Exp(Mul(Neg(k.Ke), Sub(t, k.infusionTime))))

\* A suggestion is the empty string or the text with its rounded numbers; raw
\* is the suggested dose before Math.round.
NoSuggestion == [text |-> "", mg |-> 0, h |-> 0, raw |-> Zero]
Suggest(text, rawDose, rawInterval) ==
    [text |-> text, mg |-> Round(rawDose), h |-> Round(rawInterval), raw |-> rawDose]

\* EvaluateContinuous with the steady-range test moved in front of the auc
\* tests: the slip C10 rules out.
EvaluateContinuousSteadyFirst(dose, weight, k) ==
    IF Less(k.Cmax, FromInt(20)) \/ Less(FromInt(25), k.Cmax) THEN
        [status |-> "Fora da faixa estavel",
         suggestion |-> Suggest("Ajustar dose para",
                                Mul(Mul(Mul(Mul(FromInt(20), k.Vd), k.Ke), weight),
                                    FromInt(24)), Zero)]
    ELSE IF Less(k.auc, FromInt(400)) THEN
        [status |-> "Insuficiente",
         suggestion |-> Suggest("Aumentar dose diaria para",
                                Mul(dose, Div(FromInt(400), k.auc)), Zero)]
    ELSE IF Less(FromInt(600), k.auc) THEN
        [status |-> "Excessiva",
         suggestion |-> Suggest("Reduzir dose diaria para",
                                Mul(dose, Div(FromInt(600), k.auc)), Zero)]
    ELSE [status |-> "Adequada", suggestion |-> NoSuggestion]

EvaluateContinuous(dose, weight, k) ==
    IF Less(k.auc, FromInt(400)) THEN
        [status |-> "Insuficiente",
         suggestion |-> Suggest("Aumentar dose diaria para",
                                Mul(dose, Div(FromInt(400), k.auc)), Zero)]
    ELSE IF Less(FromInt(600), k.auc) THEN
        [status |-> "Excessiva",
         suggestion |-> Suggest("Reduzir dose diaria para",
                                Mul(dose, Div(FromInt(600), k.auc)), Zero)]
    ELSE IF Less(k.Cmax, FromInt(20)) \/ Less(FromInt(25), k.Cmax) THEN
        [status |-> "Fora da faixa estavel",
         suggestion |-> Suggest("Ajustar dose para",
                                Mul(Mul(Mul(Mul(FromInt(20), k.Vd), k.Ke), weight),
                                    FromInt(24)), Zero)]
    ELSE [status |-> "Adequada", suggestion |-> NoSuggestion]

\* EvaluateVancomycin with the Excessiva test in front of the Insuficiente
\* test: the slip C4's first-match order rules out.
EvaluateVancomycinExcessFirst(dose, interval, k) ==
    IF Less(FromInt(600), k.auc) \/ Less(FromInt(20), k.Cmin) THEN
        [status |-> "Excessiva",
         suggestion |-> Suggest("Reduzir dose para",
                                Mul(dose, Div(FromInt(600), k.auc)),
                                Mul(interval, Dec(12, 1)))]
    ELSE IF Less(k.auc, FromInt(400)) \/ Less(k.Cmin, FromInt(10)) THEN
        [status |-> "Insuficiente",
         suggestion |-> Suggest("Aumentar dose para",
                                Mul(dose, Div(FromInt(400), k.auc)),
                                Mul(interval, Dec(8, 1)))]
    ELSE [status |-> "Adequada", suggestion |-> NoSuggestion]

EvaluateVancomycin(dose, interval, k) ==
    IF Less(k.auc, FromInt(400)) \/ Less(k.Cmin, FromInt(10)) THEN
        [status |-> "Insuficiente",
         suggestion |-> Suggest("Aumentar dose para",
                                Mul(dose, Div(FromInt(400), k.auc)),
                                Mul(interval, Dec(8, 1)))]
    ELSE IF Less(FromInt(600), k.auc) \/ Less(FromInt(20), k.Cmin) THEN
        [status |-> "Excessiva",
         suggestion |-> Suggest("Reduzir dose para",
                                Mul(dose, Div(FromInt(600), k.auc)),
                                Mul(interval, Dec(12, 1)))]
    ELSE [status |-> "Adequada", suggestion |-> NoSuggestion]

EvaluateAminoglycoside(antibiotic, dose, interval, k) ==
    LET targetPeak == therapeuticRanges(antibiotic).peak
        targetTrough == therapeuticRanges(antibiotic).trough
    IN  IF Less(k.Cmax, targetPeak[1]) \/ Less(k.Cmin, targetTrough[1]) THEN
            [status |-> "Insuficiente",
             suggestion |-> Suggest("Aumentar dose para",
                                    Mul(dose, Div(targetPeak[2], k.Cmax)),
                                    Mul(interval, Dec(8, 1)))]
        ELSE IF Less(targetPeak[2], k.Cmax) \/ Less(targetTrough[2], k.Cmin) THEN
            [status |-> "Excessiva",
             suggestion |-> Suggest("Reduzir dose para",
                                    Mul(dose, Div(targetPeak[1], k.Cmax)),
                                    Mul(interval, Dec(12, 1)))]
        ELSE [status |-> "Adequada", suggestion |-> NoSuggestion]

Evaluate(antibiotic, dose, interval, weight, k) ==
    IF antibiotic = "vancomycin_continuous" THEN EvaluateContinuous(dose, weight, k)
    ELSE IF antibiotic = "vancomycin_intermittent" THEN EvaluateVancomycin(dose, interval, k)
    ELSE EvaluateAminoglycoside(antibiotic, dose, interval, k)

\* JavaScript truthiness of the level (a Number or null) and of a string.
Truthy(x) == x = Infinity \/ (IsFinite(x) /\ x[1] # 0)
\* randomTime >= 0: null converts to 0, undefined to NaN.
GeqZero(x) == x = Null \/ x = Infinity \/ (IsFinite(x) /\ x[1] >= 0)

\* measuredTime: null unless a level and a levelType are given.
MeasuredTime(interval, infusionTime, level, levelType, randomTime) ==
    IF Truthy(level) /\ levelType # "" THEN
        IF levelType = "peak" THEN infusionTime
        ELSE IF levelType = "trough" THEN Sub(interval, Dec(1, 1))
        ELSE IF levelType = "random" /\ GeqZero(randomTime) THEN randomTime
        ELSE Null
    ELSE Null

\* The return statement: toFixed(2) of each parameter; t1_2 undefined throws a
\* TypeError.
ResultObject(timePoints, concentrations, k, e) ==
    IF k.t1_2 = Undefined
    THEN Throw("Cannot read properties of undefined (reading 'toFixed')")
    ELSE Return([timePoints |-> timePoints, concentrations |-> concentrations,
                 Cmax |-> ToFixed2(k.Cmax), Cmin |-> ToFixed2(k.Cmin),
                 auc |-> ToFixed2(k.auc), t1_2 |-> ToFixed2(k.t1_2),
                 status |-> e.status, suggestion |-> e.suggestion])

\* The statements after the switch, given the switch's locals k, the sampled
\* grid and the measured time: the curve, the evaluation, the overlay point and
\* the return.  The call ends in out; locals are its locals when it ended.
NoLocals == [entered |-> FALSE]

ReturnFrom(k, e, measuredTime, timePoints, concentrations) ==
    [out |-> ResultObject(timePoints, concentrations, k, e),
     locals |-> [entered |-> TRUE, Vd |-> k.Vd, Ke |-> k.Ke, t1_2 |-> k.t1_2,
                 infusionTime |-> k.infusionTime, Cmax |-> k.Cmax, Cmin |-> k.Cmin,
                 auc |-> k.auc, status |-> e.status, suggestion |-> e.suggestion,
                 measuredTime |-> measuredTime, timePoints |-> timePoints,
                 concentrations |-> concentrations]]

AdjustForLevel(k, e, grid, curve, level, measuredTime) ==
    IF measuredTime # Null
    THEN ReturnFrom(k, e, measuredTime, Append(grid, measuredTime), Append(curve, level))
    ELSE ReturnFrom(k, e, measuredTime, grid, curve)

AfterSwitch(antibiotic, dose, interval, weight, level, levelType, randomTime, k, grid) ==
    AdjustForLevel(k, Evaluate(antibiotic, dose, interval, weight, k), grid,
                   [i \in DOMAIN grid |-> Sample(grid[i], dose, weight, k)], level,
                   MeasuredTime(interval, k.infusionTime, level, levelType, randomTime))

simulatePK(antibiotic, dose, interval, weight, crCl, level, levelType, randomTime) ==
    IF Leq(dose, Zero) \/ Leq(interval, Zero)
    THEN [out |-> Throw("Dose e intervalo devem ser maiores que 0."), locals |-> NoLocals]
    ELSE AfterSwitch(antibiotic, dose, interval, weight, level, levelType, randomTime,
                     Kinetics(antibiotic, dose, interval, weight,
                              ClearancePerKg(crCl, weight)),
                     TimeGrid(interval))

\* ------------------------------------------------ the submit listener
\* The names the page's global scope binds that the listener reads.
Globals == {"document", "parseFloat", "calculateClearance", "simulatePK",
            "renderChart", "generatePDF", "alert", "results"}

\* Reading an identifier: unbound names throw a ReferenceError.
Resolve(name) ==
    IF name \in Globals THEN Return(name) ELSE Throw(name \o " is not defined")

\* A number input holds a decimal literal, or nothing (Blank).
Blank == <<0, 0, "">>
parseFloat(text) == IF text = Blank THEN NaN ELSE text
\* parseFloat(...) || null
OrNull(x) == IF x = NaN \/ x[1] = 0 THEN Null ELSE x

\* The object literal of the listener, property by property in source order;
\* ageValue is read through the identifier parseFloatਨ.
BuildPatient(f) ==
    LET weightFn == Resolve("parseFloat")
        ageValueFn == Resolve("parseFloat\\u0A28")
    IN  IF weightFn.threw THEN weightFn
        ELSE IF ageValueFn.threw THEN ageValueFn
        ELSE Return([weight |-> parseFloat(f.weight),
                     ageValue |-> parseFloat(f.ageValue),
                     ageUnit |-> f.ageUnit,
                     creatinine |-> parseFloat(f.creatinine),
                     antibiotic |-> f.antibiotic,
                     dose |-> parseFloat(f.dose),
                     interval |-> parseFloat(f.interval),
                     level |-> OrNull(parseFloat(f.level)),
                     levelType |-> f.levelType,
                     randomTime |-> OrNull(parseFloat(f.randomTime))])

\* renderChart: the line dataset and, when a level is given, the overlay point.
renderChart(timePoints, concentrations, antibiotic, level, levelType, randomTime, infusionTime) ==
    [line |-> [i \in DOMAIN concentrations |-> <<timePoints[i], concentrations[i]>>],
     antibiotic |-> antibiotic,
     overlay |->
        IF Truthy(level) /\ (levelType # "random" \/ GeqZero(randomTime))
        THEN <<IF levelType = "peak" THEN infusionTime
               ELSE IF levelType = "trough" THEN timePoints[Len(timePoints)]
               ELSE randomTime,
               level>>
        ELSE <<>>]

\* What the page shows: the three result texts, the chart and the data bound to
\* the PDF button.  Before the first result the section is hidden.
NothingShown ==
    [hidden |-> TRUE, doseStatus |-> "", doseSuggestion |-> NoSuggestion,
     pkParameters |-> <<>>, chart |-> <<>>, pdf |-> <<>>]

\* The listener's try block, statement by statement; a throw anywhere in it
\* goes to the catch, which alerts the message and changes nothing else.
Caught(shown, error) == [display |-> shown, alert |-> "Erro: " \o error.message]

ShowResult(patient, pkData, infusionTime) ==
    [display |->
        [hidden |-> FALSE,
         doseStatus |-> pkData.status,
         doseSuggestion |-> pkData.suggestion,
         pkParameters |-> <<pkData.Cmax, pkData.Cmin, pkData.auc, pkData.t1_2>>,
         chart |-> renderChart(pkData.timePoints, pkData.concentrations,
                               patient.antibiotic, patient.level, patient.levelType,
                               patient.randomTime, infusionTime),
         pdf |-> <<pkData, patient>>],
     alert |-> ""]

AfterSimulate(shown, patient, pk) ==
    IF pk.threw THEN Caught(shown, pk)
    ELSE ShowResult(patient, pk.value,
                    IF patient.antibiotic = "vancomycin_continuous" THEN FromInt(24)
                    ELSE IF patient.antibiotic = "vancomycin_intermittent" THEN FromInt(1)
                    ELSE Dec(5, 1))

AfterClearance(shown, patient, crCl) ==
    IF crCl.threw THEN Caught(shown, crCl)
    ELSE AfterSimulate(shown, patient,
                       simulatePK(patient.antibiotic, patient.dose, patient.interval,
                                  patient.weight, crCl.value, patient.level,
                                  patient.levelType, patient.randomTime).out)

AfterBuild(shown, built) ==
    IF built.threw THEN Caught(shown, built)
    ELSE AfterClearance(shown, built.value,
                        calculateClearance(built.value.weight, built.value.ageValue,
                                           built.value.ageUnit, built.value.creatinine))

SubmitHandler(f, shown) == AfterBuild(shown, BuildPatient(f))

\* ------------------------------------------------------------- state
VARIABLES
    fields,            \* the form's inputs
    randomTimeHidden,  \* randomTimeLabel carries the class hidden
    display,           \* what the page shows
    alert,             \* the message of the alert the last submission raised, or ""
    submitted,         \* the inputs of the last submission, <<>> before the first
    shownBefore,       \* what the page showed when the last submission began
    lastGood,          \* what the last submission that did not fail displayed
    clPc, clArgs, clOut,            \* a call of calculateClearance
    pkPc, pkArgs, pkOut, pkLocals   \* a call of simulatePK

formVars == <<fields, randomTimeHidden, display, alert, submitted, shownBefore, lastGood>>
clVars == <<clPc, clArgs, clOut>>
pkVars == <<pkPc, pkArgs, pkOut, pkLocals>>
vars == <<formVars, clVars, pkVars>>

NotCalled == [threw |-> FALSE, message |-> "", value |-> Undefined]

\* ---- the page
FieldValues ==
    [weight |-> {FromInt(0), FromInt(70)},
     ageValue |-> {FromInt(40)},
     ageUnit |-> {"years"},
     creatinine |-> {FromInt(-1), FromInt(1)},
     antibiotic |-> {"gentamicin", "vancomycin_continuous"},
     dose |-> {FromInt(0), FromInt(420)},
     interval |-> {FromInt(0), FromInt(8)},
     level |-> {Blank, FromInt(5)},
     levelType |-> {"peak", "random"},
     randomTime |-> {Blank, FromInt(3)}]

FormIdle ==
    /\ fields = [weight |-> FromInt(70), ageValue |-> FromInt(40), ageUnit |-> "years",
                 creatinine |-> FromInt(1), antibiotic |-> "gentamicin",
                 dose |-> FromInt(420), interval |-> FromInt(8), level |-> Blank,
                 levelType |-> "peak", randomTime |-> Blank]
    /\ randomTimeHidden = TRUE
    /\ display = NothingShown
    /\ alert = ""
    /\ submitted = <<>>
    /\ shownBefore = NothingShown
    /\ lastGood = NothingShown

ClIdle == clPc = "idle" /\ clArgs = <<>> /\ clOut = NotCalled
PkIdle == pkPc = "idle" /\ pkArgs = <<>> /\ pkOut = NotCalled /\ pkLocals = NoLocals

\* The user changes one input other than the level type.
Edit ==
    \E name \in DOMAIN FieldValues \ {"levelType"} :
        \E v \in FieldValues[name] :
            /\ fields[name] # v
            /\ fields' = [fields EXCEPT ![name] = v]
            /\ UNCHANGED <<randomTimeHidden, display, alert, submitted, shownBefore,
                           lastGood, clVars, pkVars>>

\* The user changes the level type: the change listener shows the random-time
\* input for "random" and hides it otherwise.
ChangeLevelType ==
    \E v \in FieldValues.levelType :
        /\ fields.levelType # v
        /\ fields' = [fields EXCEPT !.levelType = v]
        /\ randomTimeHidden' = (v # "random")
        /\ UNCHANGED <<display, alert, submitted, shownBefore, lastGood, clVars, pkVars>>

\* The user submits the form: the submit listener runs to its end.
Handled(r) ==
    /\ display' = r.display
    /\ alert' = r.alert
    /\ lastGood' = IF r.alert = "" THEN r.display ELSE lastGood

Submit ==
    /\ Handled(SubmitHandler(fields, display))
    /\ submitted' = fields
    /\ shownBefore' = display
    /\ UNCHANGED <<fields, randomTimeHidden, clVars, pkVars>>

Init == FormIdle /\ ClIdle /\ PkIdle
Next == Edit \/ ChangeLevelType \/ Submit
Spec == Init /\ [][Next]_vars

\* ---- calculateClearance called on its own
MaxAgeValue == 30

ClWeights == {FromInt(0), Dec(35, 1), FromInt(70)}
ClAges == {FromInt(n) : n \in 0..MaxAgeValue}
             \cup {Dec(2, 1), Dec(9, 1), Dec(175, 1), FromInt(40), FromInt(150)}
ClCreatinines == {FromInt(0), Dec(4, 1), FromInt(1)}

InitClearance ==
    /\ FormIdle /\ PkIdle
    /\ clPc = "ready"
    /\ clArgs \in [weight : ClWeights, ageValue : ClAges, ageUnit : AgeUnits,
                   creatinine : ClCreatinines]
    /\ clOut = NotCalled

CallClearance ==
    /\ clPc = "ready"
    /\ clOut' = calculateClearance(clArgs.weight, clArgs.ageValue, clArgs.ageUnit,
                                   clArgs.creatinine)
    /\ clPc' = "done"
    /\ UNCHANGED <<clArgs, formVars, pkVars>>

NextClearance == CallClearance
SpecClearance == InitClearance /\ [][NextClearance]_vars

\* ---- simulatePK called on its own
MaxHalfHours == 6

PkDoses == {FromInt(0), FromInt(2), FromInt(10), FromInt(420)}
PkIntervals == {Div(FromInt(n), FromInt(2)) : n \in 1..MaxHalfHours}
                  \cup {FromInt(8), Dec(805, 2)}
PkWeights == {Dec(35, 1), FromInt(70)}
PkClearances == {FromInt(0), Dec(9722, 2), FromInt(20000)}
\* <<level, levelType, randomTime>>
PkMeasurements ==
    {<<Null, "peak", Null>>, <<FromInt(15), "", Null>>, <<FromInt(15), "peak", Null>>,
     <<FromInt(15), "trough", Null>>, <<FromInt(15), "random", Null>>,
     <<FromInt(15), "random", Undefined>>, <<FromInt(15), "random", FromInt(-1)>>,
     <<FromInt(15), "random", FromInt(3)>>}

InitPK ==
    /\ FormIdle /\ ClIdle
    /\ pkPc = "ready"
    /\ pkArgs \in [antibiotic : Antibiotics, dose : PkDoses, interval : PkIntervals,
                   weight : PkWeights, crCl : PkClearances, measured : PkMeasurements]
    /\ pkOut = NotCalled
    /\ pkLocals = NoLocals

Ended(r) ==
    /\ pkOut' = r.out
    /\ pkLocals' = r.locals
    /\ pkPc' = "done"
    /\ UNCHANGED <<pkArgs, formVars, clVars>>

CallSimulatePK ==
    /\ pkPc = "ready"
    /\ Ended(simulatePK(pkArgs.antibiotic, pkArgs.dose, pkArgs.interval, pkArgs.weight,
                        pkArgs.crCl, pkArgs.measured[1], pkArgs.measured[2],
                        pkArgs.measured[3]))

NextPK == CallSimulatePK
SpecPK == InitPK /\ [][NextPK]_vars

\* ------------------------------------------------------------ claims
PkValid ==
    /\ Less(Zero, pkArgs.dose) /\ Less(Zero, pkArgs.interval)
    /\ Less(Zero, pkArgs.weight) /\ Leq(Zero, pkArgs.crCl)

PkStatuses == {"Insuficiente", "Excessiva", "Fora da faixa estavel", "Adequada"}

\* C1: for each of the five antibiotics and every input with dose > 0,
\* interval > 0, weight > 0 and clearance >= 0, simulatePK returns a result and
\* never ends in an error; for vancomycin_continuous the result carries one of
\* the four statuses.
C1_AlwaysReturns ==
    (pkPc = "done" /\ PkValid) =>
        /\ ~pkOut.threw
        /\ pkOut.value.status \in PkStatuses

\* ---- C2 (the page)
WeightMessage == "Erro: Peso e creatinina devem ser maiores que 0."
DoseMessage == "Erro: Dose e intervalo devem ser maiores que 0."

\* C2: a submission in which weight or creatinine is <= 0 is stopped by
\* calculateClearance's check, and otherwise one in which dose or interval is
\* <= 0 by simulatePK's check; either way an error message is shown and what the
\* page displays (status, suggestion, parameters, chart, PDF data) stays as it
\* was before the submission; and after any sequence of submissions the page
\* displays the result of the most recent submission that did not fail.
C2_InvalidSubmissionRejected ==
    submitted # <<>> =>
        /\ (Leq(submitted.weight, Zero) \/ Leq(submitted.creatinine, Zero)) =>
                alert = WeightMessage /\ display = shownBefore
        /\ (/\ ~(Leq(submitted.weight, Zero) \/ Leq(submitted.creatinine, Zero))
            /\ (Leq(submitted.dose, Zero) \/ Leq(submitted.interval, Zero))) =>
                alert = DoseMessage /\ display = shownBefore
        /\ display = lastGood

\* ---- C3 (calculateClearance)
ClValid == Less(Zero, clArgs.weight) /\ Less(Zero, clArgs.creatinine)

\* The reference of the claim, on the call's arguments.
RefAgeInDays ==
    IF clArgs.ageUnit = "days" THEN clArgs.ageValue
    ELSE IF clArgs.ageUnit = "months" THEN Mul(clArgs.ageValue, Dec(3042, 2))
    ELSE Mul(clArgs.ageValue, Dec(36525, 2))

RefPediatric ==
    \/ Leq(RefAgeInDays, FromInt(28))
    \/ clArgs.ageUnit = "months"
    \/ (clArgs.ageUnit = "years" /\ Less(clArgs.ageValue, FromInt(18)))

RefK ==
    IF Leq(RefAgeInDays, FromInt(7)) THEN Dec(33, 2)
    ELSE IF Leq(RefAgeInDays, FromInt(28)) THEN Dec(45, 2)
    ELSE IF clArgs.ageUnit = "months" THEN Dec(55, 2)
    ELSE Dec(413, 3)

RefHeight ==
    Add(FromInt(50),
        Mul(clArgs.ageValue,
            CASE clArgs.ageUnit = "years" -> FromInt(12)
              [] clArgs.ageUnit = "months" -> FromInt(1)
              [] clArgs.ageUnit = "days" -> Dec(1, 1)))

RefAgeYears ==
    CASE clArgs.ageUnit = "years" -> clArgs.ageValue
      [] clArgs.ageUnit = "months" -> Div(clArgs.ageValue, FromInt(12))
      [] clArgs.ageUnit = "days" -> Div(clArgs.ageValue, Dec(36525, 2))

RefUnclamped ==
    IF RefPediatric
    THEN Div(Mul(RefK, RefHeight), clArgs.creatinine)
    ELSE Div(Mul(Sub(FromInt(140), RefAgeYears), clArgs.weight),
             Mul(FromInt(72), clArgs.creatinine))

RefAdult ==
    Max(Zero, Div(Mul(Sub(FromInt(140), RefAgeYears), clArgs.weight),
                  Mul(FromInt(72), clArgs.creatinine)))

Aminoglycosides == {"gentamicin", "amikacin", "tobramycin"}

RefVancomycinStatus(auc, Cmin) ==
    IF Less(auc, FromInt(400)) \/ Less(Cmin, FromInt(10)) THEN "Insuficiente"
    ELSE IF Less(FromInt(600), auc) \/ Less(FromInt(20), Cmin) THEN "Excessiva"
    ELSE "Adequada"

RefAminoglycosideStatus(row, Cmax, Cmin) ==
    IF Less(Cmax, row.peak[1]) \/ Less(Cmin, row.trough[1]) THEN "Insuficiente"
    ELSE IF Less(row.peak[2], Cmax) \/ Less(row.trough[2], Cmin) THEN "Excessiva"
    ELSE "Adequada"

\* C4: for vancomycin_intermittent and the aminoglycosides the returned status
\* is one of Insuficiente, Excessiva, Adequada, decided first match wins on the
\* unrounded auc, Cmax, Cmin against 400/600 and 10/20, or against the drug's
\* peak and trough row; the suggestion is empty exactly when the status is
\* Adequada.
C4_StatusFirstMatch ==
    (pkPc = "done" /\ PkValid /\ pkArgs.antibiotic # "vancomycin_continuous") =>
        /\ ~pkOut.threw
        /\ pkOut.value.status \in {"Insuficiente", "Excessiva", "Adequada"}
        /\ pkArgs.antibiotic = "vancomycin_intermittent" =>
                pkOut.value.status = RefVancomycinStatus(pkLocals.auc, pkLocals.Cmin)
        /\ pkArgs.antibiotic \in Aminoglycosides =>
                pkOut.value.status =
                    RefAminoglycosideStatus(therapeuticRanges(pkArgs.antibiotic),
                                            pkLocals.Cmax, pkLocals.Cmin)
        /\ (pkOut.value.suggestion.text = "") <=> (pkOut.value.status = "Adequada")

\* A vancomycin_intermittent call that meets an under-condition (auc < 400) and
\* an over-condition (Cmin > 20) has returned Insuficiente.
C4_Witness ==
    /\ pkPc = "done" /\ PkValid /\ ~pkOut.threw
    /\ pkArgs.antibiotic = "vancomycin_intermittent"
    /\ Less(pkLocals.auc, FromInt(400)) /\ Less(FromInt(20), pkLocals.Cmin)
    /\ pkOut.value.status = "Insuficiente"
    /\ pkOut.value.suggestion.text # ""

\* ---- C5 (the overlay point)
GridLength == Ceil(Mul(pkArgs.interval, FromInt(2)))

\* The time the claim gives the overlay point, Null when it gives none.
RefOverlayTime ==
    LET level == pkArgs.measured[1]
        levelType == pkArgs.measured[2]
        randomTime == pkArgs.measured[3]
    IN  IF level \in {Null, Undefined} \/ levelType = "" THEN Null
        ELSE IF levelType = "peak" THEN
                (IF pkArgs.antibiotic = "vancomycin_continuous" THEN FromInt(24)
                 ELSE IF pkArgs.antibiotic = "vancomycin_intermittent" THEN FromInt(1)
                 ELSE Dec(5, 1))
        ELSE IF levelType = "trough" THEN Sub(pkArgs.interval, Dec(1, 1))
        ELSE IF randomTime \notin {Null, Undefined} /\ Leq(Zero, randomTime)
             THEN randomTime
        ELSE Null

\* C5: simulatePK appends at most one overlay point: with a level and a
\* levelType, peak appends (infusionTime, level), trough (interval - 0.1,
\* level), random (randomTime, level) only if randomTime is present and >= 0;
\* otherwise nothing is appended; and the call does not fail.
C5_OverlayPoint ==
    (pkPc = "done" /\ PkValid) =>
        /\ ~pkOut.threw
        /\ Len(pkOut.value.timePoints) = Len(pkOut.value.concentrations)
        /\ IF RefOverlayTime = Null
           THEN Len(pkOut.value.timePoints) = GridLength
           ELSE /\ Len(pkOut.value.timePoints) = GridLength + 1
                /\ pkOut.value.timePoints[GridLength + 1] = RefOverlayTime
                /\ pkOut.value.concentrations[GridLength + 1] = pkArgs.measured[1]

\* ---- C6 (the order of timePoints)
\* C6: in every result simulatePK returns, each time of timePoints is >= the
\* one before it, an overlay point included.
C6_TimePointsOrdered ==
    (pkPc = "done" /\ ~pkOut.threw) =>
        \A i \in 1..(Len(pkOut.value.timePoints) - 1) :
            Leq(pkOut.value.timePoints[i], pkOut.value.timePoints[i + 1])

\* ---- C7 (finite values)
\* C7: for validated inputs every value of the result is finite: Cmax, Cmin,
\* auc and every sampled concentration of the curve, the first sample at t = 0
\* included.
C7_AllFinite ==
    (pkPc = "done" /\ PkValid /\ pkLocals.entered) =>
        /\ IsFinite(pkLocals.Cmax) /\ IsFinite(pkLocals.Cmin) /\ IsFinite(pkLocals.auc)
        /\ \A i \in 1..GridLength : IsFinite(pkLocals.concentrations[i])

\* ---- C8 (the rising phase)
\* C8: in the curve of an intermittent-type antibiotic the samples with
\* t <= infusionTime rise (each is <= the next) and none exceeds Cmax, the
\* sample at t = infusionTime equals Cmax, and Cmax is the maximum of all curve
\* samples.
C8_RisingPhase ==
    (pkPc = "done" /\ PkValid /\ pkArgs.antibiotic # "vancomycin_continuous") =>
        /\ ~pkOut.threw
        /\ \A i \in 1..GridLength :
                /\ Leq(pkLocals.concentrations[i], pkLocals.Cmax)
                /\ pkLocals.timePoints[i] = pkLocals.infusionTime =>
                        pkLocals.concentrations[i] = pkLocals.Cmax
                /\ (i < GridLength
                    /\ Leq(pkLocals.timePoints[i + 1], pkLocals.infusionTime)) =>
                        Leq(pkLocals.concentrations[i], pkLocals.concentrations[i + 1])

\* ---- C9 (the direction of the suggested dose)
\* C9: for every antibiotic, when the status is Insuficiente the suggested
\* dose before rounding is strictly greater than the current dose, and when it
\* is Excessiva strictly smaller.
C9_SuggestionDirection ==
    (pkPc = "done" /\ PkValid /\ pkLocals.entered) =>
        /\ pkLocals.status = "Insuficiente" =>
                Less(pkArgs.dose, pkLocals.suggestion.raw)
        /\ pkLocals.status = "Excessiva" =>
                Less(pkLocals.suggestion.raw, pkArgs.dose)

\* ---- C10 (vancomycin_continuous)
\* C10: for vancomycin_continuous the status follows from auc alone:
\* Insuficiente iff auc < 400, Excessiva iff auc > 600, Fora da faixa estavel
\* iff 400 <= auc < 480, Adequada iff 480 <= auc <= 600; whenever the status is
\* Fora da faixa estavel, Cmax < 20.
C10_ContinuousStatusByAuc ==
    (pkPc = "done" /\ PkValid /\ pkArgs.antibiotic = "vancomycin_continuous") =>
        LET auc == pkLocals.auc
            status == pkLocals.status
        IN  /\ pkLocals.entered
            /\ (status = "Insuficiente") <=> Less(auc, FromInt(400))
            /\ (status = "Excessiva") <=> Less(FromInt(600), auc)
            /\ (status = "Fora da faixa estavel") <=>
                    (Leq(FromInt(400), auc) /\ Less(auc, FromInt(480)))
            /\ (status = "Adequada") <=>
                    (Leq(FromInt(480), auc) /\ Leq(auc, FromInt(600)))
            /\ (status = "Fora da faixa estavel") => Less(pkLocals.Cmax, FromInt(20))

\* A vancomycin_continuous call whose evaluation found the steady concentration
\* out of range, with auc in [400, 480).
C10_Witness ==
    /\ pkPc = "done" /\ PkValid /\ pkArgs.antibiotic = "vancomycin_continuous"
    /\ pkLocals.entered
    /\ pkLocals.status = "Fora da faixa estavel"
    /\ Leq(FromInt(400), pkLocals.auc) /\ Less(pkLocals.auc, FromInt(480))

====
